---- MODULE Spec2Model ----
(***************************************************************************)
(* Relationship hierarchy construction of the XBRL taxonomy viewer:        *)
(*   dimension_parser.process_relationships / parse_dimensions             *)
(*   taxonomy_parser.process_relationships / parse_taxonomy / parse_formula*)
(*                                                                         *)
(* Strings that the code builds by concatenation are sequences of tokens,  *)
(* so that "[R1] A" (<<"[", "R1", "] ", "A">>) and "A" (<<"A">>) are equal *)
(* exactly when the Python strings are: a localName is an XML NCName and   *)
(* holds neither "[" nor a blank.  Python's None is NoneName for a name.   *)
(* An ordered mapping (OrderedDict, dict) is a sequence of [k, v] entries  *)
(* in insertion order.                                                     *)
(***************************************************************************)
EXTENDS Integers, Sequences, FiniteSets, TLC

VARIABLES
    variant,                \* which process_relationships runs: "dimension" or "taxonomy"
    elr,                    \* the elr argument, as the segments of the URI between "/"
    rels,                   \* relationship_set.modelRelationships
    i,                      \* position of the for loop over rels (1-based)
    parent_child_map,       \* dimension_parser: parent_child_map
    root_nodes,             \* dimension_parser: root_nodes
    hierarchy,              \* the hierarchy being built and returned
    skipped_relationships,  \* taxonomy_parser: skipped_relationships (the reasons)
    build_stack,            \* dimension_parser: the running calls of build_hierarchy
    build_visited,          \* dimension_parser: the set `visited` the running calls share
    model_xbrl,             \* what model_xbrl.relationshipSet answers, per arc-role
    arc,                    \* position of the for loop over the arc-roles (1-based)
    all_elrs,               \* parse_dimensions: the link roles of all_elrs still to come
    dimensions,             \* parse_dimensions / parse_taxonomy: dimensions
    unified_dimensions,     \* parse_taxonomy: unified_dimensions
    root_objects,           \* parse_formula: root_objects, in the order they are iterated
    root_ix,                \* parse_formula: position of the for loop over root_objects
    formula_hierarchy,      \* parse_formula: formula_hierarchy (label -> place of its dict)
    heap,                   \* parse_formula: the dicts made so far, by place
    stack,                  \* parse_formula: the running calls of process_formula_object
    formula_visited,        \* parse_formula: the set `visited` the running calls share
    pc                      \* position in the running function

relVars == <<variant, elr, rels, i, parent_child_map, root_nodes, hierarchy,
             skipped_relationships, build_stack, build_visited>>

mergeVars == <<model_xbrl, arc, all_elrs, dimensions, unified_dimensions>>

formulaVars == <<root_objects, root_ix, formula_hierarchy, heap, stack, formula_visited>>

vars == <<relVars, mergeVars, formulaVars, pc>>

-----------------------------------------------------------------------------
(* Bounds *)

MaxRels == 3

\* longest relationship list of one arc-role in a parse_taxonomy run
MaxMergeRels == 2

\* most formula relationships, all arc-roles together, in a parse_formula run
MaxFormulaRels == 3

\* longest chain of formula objects
MaxChain == 103

-----------------------------------------------------------------------------
(* Ordered mappings *)

Keys(d) == [n \in 1..Len(d) |-> d[n].k]

KeySet(d) == {d[n].k : n \in 1..Len(d)}

Has(d, key) == \E n \in 1..Len(d) : d[n].k = key

Get(d, key) == d[CHOOSE n \in 1..Len(d) : d[n].k = key].v

\* d[key] = val: an existing key keeps its position, a new key goes last
Put(d, key, val) ==
    IF Has(d, key)
    THEN [n \in 1..Len(d) |-> IF d[n].k = key THEN [k |-> key, v |-> val] ELSE d[n]]
    ELSE Append(d, [k |-> key, v |-> val])

\* d.update(e): every entry of e, in e's order, assigned into d
RECURSIVE Update(_, _)
Update(d, e) ==
    IF e = <<>> THEN d
    ELSE Update(Put(d, Head(e).k, Head(e).v), Tail(e))

InSeq(s, x) == \E n \in 1..Len(s) : s[n] = x

SeqsUpTo(S, n) == UNION {[1..m -> S] : m \in 0..n}

-----------------------------------------------------------------------------
(* The taxonomy engine's objects, as far as the code reads them *)

NoneName == <<>>

QName(local) == [isNone |-> FALSE, prefix |-> "p", localName |-> local]

NoneQName == [isNone |-> TRUE, prefix |-> "", localName |-> ""]

\* a concept with a qname
Concept(local) ==
    [present |-> TRUE, hasQname |-> TRUE, qname |-> QName(local),
     isAbstract |-> (local = "A")]

\* rel.fromModelObject / rel.toModelObject is None
Absent == [present |-> FALSE, hasQname |-> FALSE, qname |-> NoneQName, isAbstract |-> FALSE]

\* an object without a qname attribute
NoQnameObject == [present |-> TRUE, hasQname |-> FALSE, qname |-> NoneQName, isAbstract |-> FALSE]

\* an object whose qname attribute is None
NullQnameObject == [present |-> TRUE, hasQname |-> TRUE, qname |-> NoneQName, isAbstract |-> FALSE]

Rel(from, to) == [fromModelObject |-> from, toModelObject |-> to]

Edge(a, b) == Rel(Concept(a), Concept(b))

\* str(qname): prefix:localName
StrQName(q) == <<q.prefix, ":", q.localName>>

\* elr.split('/')[-1]
ElrTail(e) == e[Len(e)]

\* f"[{elr.split('/')[-1]}] "
RolePrefix(e) == <<"[", ElrTail(e), "] ">>

-----------------------------------------------------------------------------
(* dimension_parser.process_relationships *)

\* the defaultdict's factory
DefaultEntry == [abstract |-> FALSE, children |-> <<>>, parent |-> NoneName]

\* One pass of the for loop over modelRelationships.  raised: the pass ended in
\* an AttributeError (None has no attribute localName).
DimRelationship(pcm, rel, e) ==
    LET parent == rel.fromModelObject
        child  == rel.toModelObject
    IN  IF ~parent.present \/ ~child.present \/ ~parent.hasQname \/ ~child.hasQname
        THEN [pcm |-> pcm, raised |-> FALSE]
        ELSE IF parent.qname.isNone \/ child.qname.isNone
        THEN [pcm |-> pcm, raised |-> TRUE]
        ELSE
        LET parent_name == RolePrefix(e) \o <<parent.qname.localName>>
            child_name  == <<child.qname.localName>>
            m1 == IF Has(pcm, parent_name) THEN pcm
                  ELSE Put(pcm, parent_name,
                           [DefaultEntry EXCEPT !.abstract = parent.isAbstract])
            m2 == IF Has(m1, child_name) THEN m1
                  ELSE Put(m1, child_name,
                           [abstract |-> child.isAbstract, children |-> <<>>,
                            parent |-> NoneName])
            m3 == Put(m2, child_name, [Get(m2, child_name) EXCEPT !.parent = parent_name])
            pe == Get(m3, parent_name)
            m4 == Put(m3, parent_name,
                      [pe EXCEPT !.children =
                          IF InSeq(pe.children, child_name) THEN pe.children
                          ELSE Append(pe.children, child_name)])
        IN  [pcm |-> m4, raised |-> FALSE]

\* build_hierarchy(node_name, visited, depth): the node or None (some = FALSE),
\* and the visited set as the call leaves it (the set is shared by reference).
RECURSIVE build_hierarchy(_, _, _)
RECURSIVE BuildChildren(_, _, _, _)

\* the for loop over node_data["children"]: the names still to come, the children
\* appended so far
BuildChildren(pcm, names, visited, acc) ==
    IF names = <<>> THEN [children |-> acc, visited |-> visited]
    ELSE IF ~Has(pcm, Head(names))
         THEN BuildChildren(pcm, Tail(names), visited, acc)
         ELSE LET r == build_hierarchy(pcm, Head(names), visited)
              IN  BuildChildren(pcm, Tail(names), r.visited,
                                IF r.some THEN Append(acc, r.node) ELSE acc)

build_hierarchy(pcm, node_name, visited) ==
    IF node_name \in visited
    THEN [some |-> FALSE, node |-> <<>>, visited |-> visited]
    ELSE LET node_data == IF Has(pcm, node_name) THEN Get(pcm, node_name)
                          ELSE [abstract |-> FALSE, children |-> <<>>]
             r == BuildChildren(pcm, node_data.children, visited \cup {node_name}, <<>>)
         IN  [some |-> TRUE,
              node |-> [name |-> node_name, abstract |-> node_data.abstract,
                        children |-> r.children],
              visited |-> r.visited \ {node_name}]

AllParents(pcm) == KeySet(pcm)

AllChildren(pcm) ==
    UNION {{pcm[n].v.children[c] : c \in 1..Len(pcm[n].v.children)} : n \in 1..Len(pcm)}

\* the difference taken the wrong way round
RootNodesInverted(pcm) ==
    IF AllChildren(pcm) \ AllParents(pcm) # {}
    THEN AllChildren(pcm) \ AllParents(pcm)
    ELSE KeySet(pcm)

\* lines 83-89: the true roots, or every key when there is none
RootNodes(pcm) ==
    IF AllParents(pcm) \ AllChildren(pcm) # {}
    THEN AllParents(pcm) \ AllChildren(pcm)
    ELSE KeySet(pcm)

\* the whole for loop of lines 19-46; it stops at the first pass that raises
RECURSIVE CollectDim(_, _, _)
CollectDim(pcm, rs, e) ==
    IF rs = <<>> THEN [pcm |-> pcm, raised |-> FALSE]
    ELSE LET r == DimRelationship(pcm, Head(rs), e)
         IN  IF r.raised THEN r ELSE CollectDim(r.pcm, Tail(rs), e)

-----------------------------------------------------------------------------
(* taxonomy_parser.process_relationships *)

\* One pass of the for loop: the hierarchy and the skip list after it.
TaxRelationship(h, skipped, rel) ==
    LET parent == rel.fromModelObject
        child  == rel.toModelObject
    IN  IF ~parent.present \/ ~child.present
        THEN [hierarchy |-> h, skipped |-> Append(skipped, "Parent or child is None")]
        ELSE IF ~parent.hasQname \/ parent.qname.isNone
                \/ ~child.hasQname \/ child.qname.isNone
        THEN [hierarchy |-> h, skipped |-> Append(skipped, "Missing QName")]
        ELSE
        LET parent_name == StrQName(parent.qname)
            child_name  == StrQName(child.qname)
            h1 == IF Has(h, parent_name) THEN h
                  ELSE Put(h, parent_name,
                           [abstract |-> parent.isAbstract, children |-> <<>>])
            pe == Get(h1, parent_name)
            h2 == IF \E c \in 1..Len(pe.children) : pe.children[c].name = child_name
                  THEN h1
                  ELSE Put(h1, parent_name,
                           [pe EXCEPT !.children =
                               Append(pe.children,
                                      [name |-> child_name, abstract |-> child.isAbstract])])
        IN  [hierarchy |-> h2, skipped |-> skipped]

\* the whole function: the loop of lines 18-39 and the return of line 48
RECURSIVE TaxCollect(_, _, _)
TaxCollect(h, skipped, rs) ==
    IF rs = <<>> THEN [hierarchy |-> h, skipped |-> skipped]
    ELSE LET r == TaxRelationship(h, skipped, Head(rs))
         IN  TaxCollect(r.hierarchy, r.skipped, Tail(rs))

-----------------------------------------------------------------------------
(* One call of process_relationships on one scope *)

RelPool ==
    { Edge("A", "B"), Edge("B", "C"), Edge("C", "A"), Edge("A", "C"),
      Edge("A", "A"), Edge("B", "A"),
      Rel(Absent, Concept("B")), Rel(Concept("A"), Absent),
      Rel(NoQnameObject, Concept("B")), Rel(Concept("A"), NoQnameObject),
      Rel(NullQnameObject, Concept("B")), Rel(Concept("A"), NullQnameObject) }

\* A -> B, A -> C, B -> D, C -> D
FanIn == <<Edge("A", "B"), Edge("A", "C"), Edge("B", "D"), Edge("C", "D")>>

RelInputs == SeqsUpTo(RelPool, MaxRels) \cup {FanIn}

Elr1 == <<"http:", "", "example.com", "role", "R1">>

\* no parse_formula call is running
FormulaIdle ==
    /\ root_objects = <<>>
    /\ root_ix = 0
    /\ formula_hierarchy = <<>>
    /\ heap = <<>>
    /\ stack = <<>>
    /\ formula_visited = {}

\* no parse_dimensions / parse_taxonomy call is running
MergeIdle ==
    /\ model_xbrl = <<>>
    /\ arc = 0
    /\ all_elrs = {}
    /\ dimensions = <<>>
    /\ unified_dimensions = <<>>

InitRel ==
    /\ variant \in {"dimension", "taxonomy"}
    /\ elr = Elr1
    /\ rels \in RelInputs
    /\ i = 1
    /\ parent_child_map = <<>>
    /\ root_nodes = {}
    /\ hierarchy = <<>>
    /\ skipped_relationships = <<>>
    /\ build_stack = <<>>
    /\ build_visited = {}
    /\ MergeIdle
    /\ FormulaIdle
    /\ pc = "collect"

\* dimension_parser lines 19-46, one relationship
RelCollectDim ==
    /\ pc = "collect" /\ variant = "dimension" /\ i <= Len(rels)
    /\ LET r == DimRelationship(parent_child_map, rels[i], elr)
       IN  /\ parent_child_map' = r.pcm
           /\ pc' = IF r.raised THEN "raised" ELSE "collect"
           /\ i' = IF r.raised THEN i ELSE i + 1
    /\ UNCHANGED <<variant, elr, rels, root_nodes, hierarchy, skipped_relationships>>
    /\ UNCHANGED <<mergeVars, formulaVars, build_stack, build_visited>>

\* dimension_parser lines 83-89
RelResolveRoots ==
    /\ pc = "collect" /\ variant = "dimension" /\ i > Len(rels)
    /\ root_nodes' = RootNodes(parent_child_map)
    /\ pc' = "build"
    /\ UNCHANGED <<variant, elr, rels, i, parent_child_map, hierarchy, skipped_relationships>>
    /\ UNCHANGED <<mergeVars, formulaVars, build_stack, build_visited>>

\* dimension_parser lines 93-94: one root of the set; a set of strings is iterated in
\* hash order, which differs from run to run, so any root not yet built may come next
RelBuildRoot ==
    /\ pc = "build"
    /\ \E root \in root_nodes \ KeySet(hierarchy) :
          hierarchy' = Put(hierarchy, root, build_hierarchy(parent_child_map, root, {}).node)
    /\ UNCHANGED <<variant, elr, rels, i, parent_child_map, root_nodes,
                   skipped_relationships, pc>>
    /\ UNCHANGED <<mergeVars, formulaVars, build_stack, build_visited>>

\* dimension_parser line 103
RelReturnDim ==
    /\ pc = "build" /\ root_nodes \subseteq KeySet(hierarchy)
    /\ pc' = "done"
    /\ UNCHANGED <<variant, elr, rels, i, parent_child_map, root_nodes, hierarchy,
                   skipped_relationships>>
    /\ UNCHANGED <<mergeVars, formulaVars, build_stack, build_visited>>

\* taxonomy_parser lines 18-39, one relationship
RelCollectTax ==
    /\ pc = "collect" /\ variant = "taxonomy" /\ i <= Len(rels)
    /\ LET r == TaxRelationship(hierarchy, skipped_relationships, rels[i])
       IN  /\ hierarchy' = r.hierarchy
           /\ skipped_relationships' = r.skipped
    /\ i' = i + 1
    /\ UNCHANGED <<variant, elr, rels, parent_child_map, root_nodes, pc>>
    /\ UNCHANGED <<mergeVars, formulaVars, build_stack, build_visited>>

\* taxonomy_parser line 48
RelReturnTax ==
    /\ pc = "collect" /\ variant = "taxonomy" /\ i > Len(rels)
    /\ pc' = "done"
    /\ UNCHANGED <<variant, elr, rels, i, parent_child_map, root_nodes, hierarchy,
                   skipped_relationships>>
    /\ UNCHANGED <<mergeVars, formulaVars, build_stack, build_visited>>

NextRel ==
    \/ RelCollectDim
    \/ RelResolveRoots
    \/ RelBuildRoot
    \/ RelReturnDim
    \/ RelCollectTax
    \/ RelReturnTax

SpecRel == InitRel /\ [][NextRel]_vars

-----------------------------------------------------------------------------
(* build_hierarchy call by call *)

\* line 62: parent_child_map.get(node_name, {"abstract": False, "children": {}})
NodeData(pcm, node_name) ==
    IF Has(pcm, node_name) THEN Get(pcm, node_name)
    ELSE [abstract |-> FALSE, children |-> <<>>]

\* a call of build_hierarchy that is past line 68: the node it builds and the names
\* its loop over node_data["children"] has still to take (the first one is the one
\* being built while a callee runs)
BuildFrame(pcm, node_name) ==
    [node  |-> [name |-> node_name, abstract |-> NodeData(pcm, node_name).abstract,
                children |-> <<>>],
     names |-> NodeData(pcm, node_name).children]

\* lines 93-94 and, in the call, lines 56-68: build_hierarchy is entered on a root not
\* yet built, with a new empty set `visited`
BuildCallRoot ==
    /\ pc = "build"
    /\ \E root \in root_nodes \ KeySet(hierarchy) :
          /\ build_stack' = <<BuildFrame(parent_child_map, root)>>
          /\ build_visited' = {root}
    /\ pc' = "descend"
    /\ UNCHANGED <<variant, elr, rels, i, parent_child_map, root_nodes, hierarchy,
                   skipped_relationships, mergeVars, formulaVars>>

\* lines 71-76 for the next child name of the innermost call: a name without an entry
\* is passed over; a name already in `visited` gets None (line 58), which line 75
\* drops; otherwise the call on the child is entered (lines 60-68)
BuildVisitChild ==
    /\ pc = "descend" /\ build_stack # <<>>
    /\ build_stack[Len(build_stack)].names # <<>>
    /\ LET top        == build_stack[Len(build_stack)]
           child_name == Head(top.names)
       IN  IF ~Has(parent_child_map, child_name) \/ child_name \in build_visited
           THEN /\ build_stack' = [build_stack EXCEPT ![Len(build_stack)].names =
                                       Tail(top.names)]
                /\ UNCHANGED build_visited
           ELSE /\ build_stack' = Append(build_stack,
                                         BuildFrame(parent_child_map, child_name))
                /\ build_visited' = build_visited \cup {child_name}
    /\ UNCHANGED <<variant, elr, rels, i, parent_child_map, root_nodes, hierarchy,
                   skipped_relationships, mergeVars, formulaVars, pc>>

\* lines 78-79 of the innermost call, whose loop is over, and line 76 of its caller,
\* or line 94 when the call was made on a root
BuildReturnCall ==
    /\ pc = "descend" /\ build_stack # <<>>
    /\ build_stack[Len(build_stack)].names = <<>>
    /\ LET top == build_stack[Len(build_stack)]
       IN  /\ build_visited' = build_visited \ {top.node.name}
           /\ IF Len(build_stack) = 1
              THEN /\ build_stack' = <<>>
                   /\ hierarchy' = Put(hierarchy, top.node.name, top.node)
                   /\ pc' = "build"
              ELSE LET caller == build_stack[Len(build_stack) - 1]
                   IN  /\ build_stack' =
                             [SubSeq(build_stack, 1, Len(build_stack) - 1) EXCEPT
                                 ![Len(build_stack) - 1] =
                                     [node  |-> [caller.node EXCEPT !.children =
                                                    Append(caller.node.children, top.node)],
                                      names |-> Tail(caller.names)]]
                       /\ hierarchy' = hierarchy
                       /\ pc' = "descend"
    /\ UNCHANGED <<variant, elr, rels, i, parent_child_map, root_nodes,
                   skipped_relationships, mergeVars, formulaVars>>

-----------------------------------------------------------------------------
(* dimension_parser.parse_dimensions *)

\* dim_arcroles: the list's positions
DimArcroles == 1..3

Perms(S) == {s \in [1..Cardinality(S) -> S] : \A a, b \in 1..Cardinality(S) : s[a] = s[b] => a = b}

\* lines 93-94 for the roots taken in the order `order`
RECURSIVE BuildRoots(_, _, _)
BuildRoots(pcm, order, h) ==
    IF order = <<>> THEN h
    ELSE BuildRoots(pcm, Tail(order),
                    Put(h, Head(order), build_hierarchy(pcm, Head(order), {}).node))

\* the hierarchies one call process_relationships(arcrole, relationship_set, elr) may
\* return when its loop does not raise: one for each order in which the set
\* root_nodes can be iterated
ProcessRelationships(rs, e) ==
    LET pcm == CollectDim(<<>>, rs, e).pcm
    IN  {BuildRoots(pcm, order, <<>>) : order \in Perms(RootNodes(pcm))}

Elr2 == <<"http:", "", "example.com", "role", "R2">>

Elrs == {Elr1, Elr2}

\* the relationships of one (arc-role, link role); empty: the link role is not among
\* the arc-role's linkRoleUris
ScopeInputs ==
    { <<>>, <<Edge("A", "B")>>, <<Edge("A", "C")>>, <<Edge("B", "C")>>,
      <<Edge("A", "B"), Edge("A", "C")>> }

\* relationship_set.linkRoleUris of arc-role a
LinkRoleUris(a) == {e \in Elrs : model_xbrl[a][e] # <<>>}

RelIdle ==
    /\ variant = "none"
    /\ elr = <<>>
    /\ rels = <<>>
    /\ i = 0
    /\ parent_child_map = <<>>
    /\ root_nodes = {}
    /\ hierarchy = <<>>
    /\ skipped_relationships = <<>>
    /\ build_stack = <<>>
    /\ build_visited = {}

InitDims ==
    /\ model_xbrl \in [DimArcroles -> [Elrs -> ScopeInputs]]
    /\ arc = 1
    /\ all_elrs = {}
    /\ dimensions = <<>>
    /\ unified_dimensions = <<>>
    /\ RelIdle
    /\ pc = "arcrole"
    /\ FormulaIdle

\* lines 129-132: the arc-role has relationships
DimsEnterArcrole ==
    /\ pc = "arcrole" /\ arc \in DimArcroles
    /\ LinkRoleUris(arc) # {}
    /\ all_elrs' = LinkRoleUris(arc)
    /\ pc' = "elrs"
    /\ UNCHANGED <<model_xbrl, arc, dimensions, unified_dimensions, relVars>>
    /\ UNCHANGED formulaVars

\* lines 138-139: no relationship set for the arc-role
DimsNoRelationships ==
    /\ pc = "arcrole" /\ arc \in DimArcroles
    /\ LinkRoleUris(arc) = {}
    /\ arc' = arc + 1
    /\ UNCHANGED <<model_xbrl, all_elrs, dimensions, unified_dimensions, relVars, pc>>
    /\ UNCHANGED formulaVars

\* lines 133-137 for one link role of the set all_elrs (a set: any of those left)
DimsProcessElr ==
    /\ pc = "elrs"
    /\ \E e \in all_elrs :
          IF CollectDim(<<>>, model_xbrl[arc][e], e).raised
          THEN /\ pc' = "raised"
               /\ UNCHANGED <<dimensions, all_elrs>>
          ELSE /\ \E arcrole_hierarchy \in ProcessRelationships(model_xbrl[arc][e], e) :
                     dimensions' = Update(dimensions, arcrole_hierarchy)
               /\ all_elrs' = all_elrs \ {e}
               /\ pc' = pc
    /\ UNCHANGED <<model_xbrl, arc, unified_dimensions, relVars>>
    /\ UNCHANGED formulaVars

\* the loop over all_elrs is over: next arc-role
DimsNextArcrole ==
    /\ pc = "elrs" /\ all_elrs = {}
    /\ arc' = arc + 1
    /\ pc' = "arcrole"
    /\ UNCHANGED <<model_xbrl, all_elrs, dimensions, unified_dimensions, relVars>>
    /\ UNCHANGED formulaVars

\* line 142
DimsReturn ==
    /\ pc = "arcrole" /\ arc \notin DimArcroles
    /\ pc' = "done"
    /\ UNCHANGED <<mergeVars, relVars>>
    /\ UNCHANGED formulaVars

NextDims ==
    \/ DimsEnterArcrole
    \/ DimsNoRelationships
    \/ DimsProcessElr
    \/ DimsNextArcrole
    \/ DimsReturn

SpecDims == InitDims /\ [][NextDims]_vars

-----------------------------------------------------------------------------
(* taxonomy_parser.parse_taxonomy, lines 157-177: the dimensions *)

\* lines 172-175 with every child already present left out
MergeEntryDeduplicating(unified, parent, details) ==
    IF ~Has(unified, parent)
    THEN Put(unified, parent, details)
    ELSE LET old == Get(unified, parent)
         IN  Put(unified, parent,
                 [old EXCEPT !.children =
                     old.children \o SelectSeq(details.children,
                                               LAMBDA c : ~InSeq(old.children, c))])

\* lines 172-175: one parent of one arc-role's hierarchy into unified_dimensions
MergeEntry(unified, parent, details) ==
    IF ~Has(unified, parent)
    THEN Put(unified, parent, details)
    ELSE LET old == Get(unified, parent)
         IN  Put(unified, parent,
                 [old EXCEPT !.children = old.children \o details.children])

\* lines 171-175: the for loop over dimensions[arcrole].items()
RECURSIVE MergeHierarchy(_, _)
MergeHierarchy(unified, h) ==
    IF h = <<>> THEN unified
    ELSE MergeHierarchy(MergeEntry(unified, Head(h).k, Head(h).v), Tail(h))

\* unified_dimensions[parent] = details stores the very dict that dimensions[arcrole]
\* holds, so a later extend shows in the arc-role that first brought the parent
Aliased(dims, unified) ==
    [a \in 1..Len(dims) |->
        [k |-> dims[a].k,
         v |-> [n \in 1..Len(dims[a].v) |->
                  LET parent == dims[a].v[n].k
                  IN  IF \E b \in 1..(a - 1) : Has(dims[b].v, parent)
                      THEN dims[a].v[n]
                      ELSE [k |-> parent, v |-> Get(unified, parent)]]]]

MergePool == {Edge("A", "B"), Edge("A", "C"), Edge("B", "A")}

InitTaxonomy ==
    /\ model_xbrl \in [DimArcroles -> SeqsUpTo(MergePool, MaxMergeRels)]
    /\ arc = 1
    /\ all_elrs = {}
    /\ dimensions = <<>>
    /\ unified_dimensions = <<>>
    /\ RelIdle
    /\ pc = "arcrole"
    /\ FormulaIdle

\* lines 165-175: an arc-role whose relationship set is not empty (a relationship
\* set is true when it holds relationships)
TaxonomyMergeArcrole ==
    /\ pc = "arcrole" /\ arc \in DimArcroles
    /\ model_xbrl[arc] # <<>>
    /\ LET h == TaxCollect(<<>>, <<>>, model_xbrl[arc]).hierarchy
           u == MergeHierarchy(unified_dimensions, h)
       IN  /\ unified_dimensions' = u
           /\ dimensions' = Aliased(Put(dimensions, arc, h), u)
    /\ arc' = arc + 1
    /\ UNCHANGED <<model_xbrl, all_elrs, relVars, pc>>
    /\ UNCHANGED formulaVars

\* lines 176-177
TaxonomyNoRelationships ==
    /\ pc = "arcrole" /\ arc \in DimArcroles
    /\ model_xbrl[arc] = <<>>
    /\ arc' = arc + 1
    /\ UNCHANGED <<model_xbrl, all_elrs, dimensions, unified_dimensions, relVars, pc>>
    /\ UNCHANGED formulaVars

\* lines 190-195
TaxonomyReturn ==
    /\ pc = "arcrole" /\ arc \notin DimArcroles
    /\ pc' = "done"
    /\ UNCHANGED <<mergeVars, relVars>>
    /\ UNCHANGED formulaVars

NextTaxonomy ==
    \/ TaxonomyMergeArcrole
    \/ TaxonomyNoRelationships
    \/ TaxonomyReturn

SpecTaxonomy == InitTaxonomy /\ [][NextTaxonomy]_vars

-----------------------------------------------------------------------------
(* taxonomy_parser.parse_formula *)

\* formula_arcroles: the list's positions
FormulaArcroles == 1..3

\* the default of the parameter max_depth
max_depth == 100

\* a formula object; xlinkLabel NoneName: the object has no label
FormulaObject(id, label, localName) ==
    [present |-> TRUE, id |-> id, xlinkLabel |-> label, localName |-> localName]

\* rel.toModelObject is None
AbsentFormulaObject ==
    [present |-> FALSE, id |-> 0, xlinkLabel |-> NoneName, localName |-> ""]

Label(n) == <<"label", n>>

\* obj.xlinkLabel or str(obj.localName)
ObjName(obj) == IF obj.xlinkLabel # NoneName THEN obj.xlinkLabel ELSE <<obj.localName>>

\* relationship_set.fromModelObject(obj)
FromModelObject(rs, obj) == SelectSeq(rs, LAMBDA r : r.fromModelObject = obj)

\* line 79 with the limit itself already too deep
DepthExceededAtLimit(depth, limit) == depth >= limit

\* line 79: depth > max_depth
DepthExceeded(depth, limit) == depth > limit

\* lines 90-95 without the test: the entry is made anew on every visit
AddObjectAnew(h, obj) ==
    Put(h, ObjName(obj),
        [type |-> obj.localName, label |-> obj.xlinkLabel, children |-> <<>>])

\* lines 90-95: the object's entry, made on the first visit only
AddObject(h, obj) ==
    IF Has(h, ObjName(obj)) THEN h
    ELSE Put(h, ObjName(obj),
             [type |-> obj.localName, label |-> obj.xlinkLabel, children |-> <<>>])

\* lines 75-86 without the test of line 84: only the depth guard returns
EntersOffPath(obj, visited, depth) == ~DepthExceeded(depth, max_depth)

\* lines 75-86 of a call entered with `visited` and `depth`: whether the call goes
\* on to line 88 (neither the depth guard nor the cycle guard returns)
Enters(obj, visited, depth) ==
    /\ ~DepthExceeded(depth, max_depth)
    /\ obj \notin visited

\* lines 98-99: the relationships the for loop of a call on obj runs over
Outgoing(rs, obj) == IF rs # <<>> THEN FromModelObject(rs, obj) ELSE <<>>

\* a call of process_formula_object that is past line 95: its object, the dict it
\* writes into (a place in the heap), the relationships its loop has still to take
\* (the first one is the one being visited while a callee runs), and its depth
Frame(obj, dict, out, depth) ==
    [obj |-> obj, hierarchy |-> dict, out |-> out, depth |-> depth]

\* line 105 with the new dict put before its siblings
AppendChildFirst(h, obj, child_dict) ==
    LET e == Get(h, ObjName(obj))
    IN  Put(h, ObjName(obj), [e EXCEPT !.children = <<child_dict>> \o e.children])

\* line 105: hierarchy[obj_name]["children"].append(child_hierarchy)
AppendChild(h, obj, child_dict) ==
    LET e == Get(h, ObjName(obj))
    IN  Put(h, ObjName(obj), [e EXCEPT !.children = Append(e.children, child_dict)])

FRel(from, to) == [fromModelObject |-> from, toModelObject |-> to]

O1 == FormulaObject(1, Label(1), "assertionSet")
O2 == FormulaObject(2, Label(2), "valueAssertion")
O3 == FormulaObject(3, NoneName, "factVariable")
\* a second object that carries O1's label
O4 == FormulaObject(4, Label(1), "valueAssertion")

FormulaPool ==
    { FRel(O1, O2), FRel(O2, O3), FRel(O2, O1), FRel(O3, O3),
      FRel(O1, AbsentFormulaObject), FRel(O4, O2) }

\* rootFormulaObjects returns a set: the for loops over it meet its members in some
\* order, the same in every loop of one run
RootInputs == { <<O1>>, <<O1, O4>>, <<O4, O1>>, <<O3, O1>> }

InitFormula ==
    /\ \E l1 \in 0..MaxFormulaRels : \E l2 \in 0..(MaxFormulaRels - l1) :
       \E l3 \in 0..(MaxFormulaRels - l1 - l2) :
          \E s1 \in [1..l1 -> FormulaPool] : \E s2 \in [1..l2 -> FormulaPool] :
          \E s3 \in [1..l3 -> FormulaPool] :
             model_xbrl = <<s1, s2, s3>>
    /\ root_objects \in RootInputs
    /\ root_ix = 0
    /\ formula_hierarchy = <<>>
    /\ heap = <<>>
    /\ stack = <<>>
    /\ formula_visited = {}
    /\ arc = 1
    /\ all_elrs = {}
    /\ dimensions = <<>>
    /\ unified_dimensions = <<>>
    /\ RelIdle
    /\ pc = "arcrole"

\* the chain C1 -> C2 -> ... -> Cn of n objects
ChainObject(n) == FormulaObject(n, Label(n), "filter")

Chain(n) == [k \in 1..(n - 1) |-> FRel(ChainObject(k), ChainObject(k + 1))]

\* one arc-role holds a chain, the other two hold nothing
InitChain ==
    /\ \E n \in 2..MaxChain : \E a \in FormulaArcroles :
          model_xbrl = [b \in FormulaArcroles |-> IF b = a THEN Chain(n) ELSE <<>>]
    /\ root_objects = <<ChainObject(1)>>
    /\ root_ix = 0
    /\ formula_hierarchy = <<>>
    /\ heap = <<>>
    /\ stack = <<>>
    /\ formula_visited = {}
    /\ arc = 1
    /\ all_elrs = {}
    /\ dimensions = <<>>
    /\ unified_dimensions = <<>>
    /\ RelIdle
    /\ pc = "arcrole"

\* lines 110-113: the arc-role has relationships
FormulaEnterArcrole ==
    /\ pc = "arcrole" /\ arc \in FormulaArcroles
    /\ model_xbrl[arc] # <<>>
    /\ root_ix' = 1
    /\ pc' = "roots"
    /\ UNCHANGED <<root_objects, formula_hierarchy, heap, stack, formula_visited, mergeVars,
                   relVars>>

\* lines 118-119
FormulaNoRelationships ==
    /\ pc = "arcrole" /\ arc \in FormulaArcroles
    /\ model_xbrl[arc] = <<>>
    /\ arc' = arc + 1
    /\ UNCHANGED <<model_xbrl, all_elrs, dimensions, unified_dimensions, formulaVars,
                   relVars, pc>>

\* lines 114-117 and, in the call, lines 75-95: the root's mapping is made if its
\* label has none yet, and process_formula_object is entered on the root
FormulaCallRoot ==
    /\ pc = "roots" /\ root_ix <= Len(root_objects)
    /\ LET obj   == root_objects[root_ix]
           fresh == ~Has(formula_hierarchy, obj.xlinkLabel)
           heap1 == IF fresh THEN Append(heap, <<>>) ELSE heap
           fh    == IF fresh THEN Put(formula_hierarchy, obj.xlinkLabel, Len(heap1))
                    ELSE formula_hierarchy
           dict  == Get(fh, obj.xlinkLabel)
       IN  /\ formula_hierarchy' = fh
           /\ IF Enters(obj, {}, 0)
              THEN /\ heap' = [heap1 EXCEPT ![dict] = AddObject(heap1[dict], obj)]
                   /\ stack' = <<Frame(obj, dict, Outgoing(model_xbrl[arc], obj), 0)>>
                   /\ formula_visited' = {obj}
                   /\ root_ix' = root_ix
                   /\ pc' = "walk"
              ELSE /\ heap' = heap1
                   /\ stack' = <<>>
                   /\ formula_visited' = {}
                   /\ root_ix' = root_ix + 1
                   /\ pc' = "roots"
    /\ UNCHANGED <<root_objects, mergeVars, relVars>>

\* lines 99-105 for the next relationship of the innermost call: a None target is
\* passed over; a child the guards turn away leaves its new dict empty, and line 105
\* appends it; otherwise the call on the child is entered (lines 86-95)
FormulaVisitChild ==
    /\ pc = "walk" /\ stack # <<>> /\ stack[Len(stack)].out # <<>>
    /\ LET top   == stack[Len(stack)]
           child == Head(top.out).toModelObject
           place == Len(heap) + 1
       IN  IF ~child.present
           THEN /\ stack' = [stack EXCEPT ![Len(stack)].out = Tail(top.out)]
                /\ UNCHANGED <<heap, formula_visited>>
           ELSE IF ~Enters(child, formula_visited, top.depth + 1)
           THEN /\ heap' = [Append(heap, <<>>) EXCEPT
                               ![top.hierarchy] = AppendChild(heap[top.hierarchy], top.obj, place)]
                /\ stack' = [stack EXCEPT ![Len(stack)].out = Tail(top.out)]
                /\ UNCHANGED formula_visited
           ELSE /\ heap' = Append(heap, AddObject(<<>>, child))
                /\ stack' = Append(stack, Frame(child, place,
                                                Outgoing(model_xbrl[arc], child), top.depth + 1))
                /\ formula_visited' = formula_visited \cup {child}
    /\ UNCHANGED <<root_objects, root_ix, formula_hierarchy, mergeVars, relVars, pc>>

\* line 107 of the innermost call, whose loop is over, and line 105 of its caller
FormulaReturnCall ==
    /\ pc = "walk" /\ stack # <<>> /\ stack[Len(stack)].out = <<>>
    /\ LET top == stack[Len(stack)]
       IN  /\ formula_visited' = formula_visited \ {top.obj}
           /\ IF Len(stack) = 1
              THEN /\ stack' = <<>>
                   /\ heap' = heap
                   /\ root_ix' = root_ix + 1
                   /\ pc' = "roots"
              ELSE LET caller == stack[Len(stack) - 1]
                   IN  /\ heap' = [heap EXCEPT ![caller.hierarchy] =
                                      AppendChild(heap[caller.hierarchy], caller.obj,
                                                  top.hierarchy)]
                       /\ stack' = [SubSeq(stack, 1, Len(stack) - 1) EXCEPT
                                       ![Len(stack) - 1].out = Tail(caller.out)]
                       /\ root_ix' = root_ix
                       /\ pc' = "walk"
    /\ UNCHANGED <<root_objects, formula_hierarchy, mergeVars, relVars>>

\* the loop over root_objects is over: next arc-role
FormulaNextArcrole ==
    /\ pc = "roots" /\ root_ix > Len(root_objects)
    /\ arc' = arc + 1
    /\ pc' = "arcrole"
    /\ UNCHANGED <<model_xbrl, all_elrs, dimensions, unified_dimensions, formulaVars,
                   relVars>>

\* line 122
FormulaReturn ==
    /\ pc = "arcrole" /\ arc \notin FormulaArcroles
    /\ pc' = "done"
    /\ UNCHANGED <<mergeVars, formulaVars, relVars>>

NextFormula ==
    \/ FormulaEnterArcrole
    \/ FormulaNoRelationships
    \/ FormulaCallRoot
    \/ FormulaVisitChild
    \/ FormulaReturnCall
    \/ FormulaNextArcrole
    \/ FormulaReturn

SpecFormula == InitFormula /\ [][NextFormula]_vars

SpecChain == InitChain /\ [][NextFormula]_vars

\* parse_formula on either kind of input: small graphs with cycles, or one long chain
InitWalk == InitFormula \/ InitChain

SpecWalk == InitWalk /\ [][NextFormula]_vars

-----------------------------------------------------------------------------
(* Properties of one call of process_relationships *)

\* the last token of a name: the concept's local name, with or without a role tag
LocalOf(name) == name[Len(name)]

Tagged(local) == RolePrefix(elr) \o <<local>>

Returned == pc = "done"

\* a relationship both of whose ends are present and carry a qname
Identified(rel) ==
    /\ rel.fromModelObject.present /\ rel.toModelObject.present
    /\ rel.fromModelObject.hasQname /\ rel.toModelObject.hasQname
    /\ ~rel.fromModelObject.qname.isNone /\ ~rel.toModelObject.qname.isNone

RECURSIVE DescendantNames(_)
DescendantNames(node) ==
    UNION {{node.children[c].name} \cup DescendantNames(node.children[c]) :
           c \in 1..Len(node.children)}

RECURSIVE NodeAcyclic(_)
NodeAcyclic(node) ==
    /\ node.name \notin DescendantNames(node)
    /\ \A c \in 1..Len(node.children) : NodeAcyclic(node.children[c])

\* C1: in every hierarchy returned by process_relationships (either variant), no node
\* has among its transitive children a node that carries its own name.
C1_OutputAcyclic ==
    Returned =>
        \A n \in 1..Len(hierarchy) :
            IF variant = "dimension"
            THEN NodeAcyclic(hierarchy[n].v)
            ELSE \A c \in 1..Len(hierarchy[n].v.children) :
                    hierarchy[n].v.children[c].name # hierarchy[n].k

ChainInput == <<Edge("A", "B"), Edge("B", "C")>>

\* C2: for the edges A -> B, B -> C the dimension variant returns exactly one root, the
\* one for A, whose tree is A -> B -> C; B is not a root.
C2_RootDetection ==
    (Returned /\ variant = "dimension" /\ rels = ChainInput) =>
        /\ Len(hierarchy) = 1
        /\ LocalOf(hierarchy[1].k) = "A"
        /\ LET a == hierarchy[1].v
           IN  /\ Len(a.children) = 1
               /\ LocalOf(a.children[1].name) = "B"
               /\ Len(a.children[1].children) = 1
               /\ LocalOf(a.children[1].children[1].name) = "C"

RingInput == <<Edge("A", "B"), Edge("B", "C"), Edge("C", "A")>>

\* C3: in the dimension variant the root set is a subset of the keys of the
\* parent-child map, is non-empty whenever the map is non-empty, and is the whole key
\* set when allParents - allChildren is empty; the ring A -> B, B -> C, C -> A gets a
\* root for each of A, B and C, and the returned forest has exactly the roots.
C3_RootSet ==
    (variant = "dimension" /\ pc \in {"build", "done"}) =>
        /\ root_nodes \subseteq KeySet(parent_child_map)
        /\ parent_child_map # <<>> => root_nodes # {}
        /\ AllParents(parent_child_map) \ AllChildren(parent_child_map) = {}
              => root_nodes = KeySet(parent_child_map)
        /\ rels = RingInput => root_nodes = {Tagged("A"), Tagged("B"), Tagged("C")}
        /\ Returned => KeySet(hierarchy) = root_nodes

C3_Witness ==
    /\ Returned /\ variant = "dimension" /\ rels = RingInput
    /\ KeySet(hierarchy) = {Tagged("A"), Tagged("B"), Tagged("C")}

\* the children of the node called `local` under `node`, when there is one
ChildNodes(node, local) ==
    {node.children[c] : c \in {d \in 1..Len(node.children) :
                                  LocalOf(node.children[d].name) = local}}

\* C4: for A -> B, A -> C, B -> D, C -> D the tree of root A holds D twice: as a child
\* of the B node and as a child of the C node.
C4_FanIn ==
    (Returned /\ variant = "dimension" /\ rels = FanIn) =>
        \E n \in 1..Len(hierarchy) :
            /\ LocalOf(hierarchy[n].k) = "A"
            /\ \E b \in ChildNodes(hierarchy[n].v, "B") : ChildNodes(b, "D") # {}
            /\ \E c \in ChildNodes(hierarchy[n].v, "C") : ChildNodes(c, "D") # {}

\* C8: in both variants a relationship with an absent end, or an end without identity
\* (no qname attribute, or a qname that is None), is left out without any error, and
\* the other relationships are processed as if it had not been there.
C8_SkipAndContinue ==
    /\ pc # "raised"
    /\ (variant = "dimension" /\ pc \in {"build", "done"}) =>
          parent_child_map = CollectDim(<<>>, SelectSeq(rels, Identified), elr).pcm
    /\ (variant = "taxonomy" /\ Returned) =>
          hierarchy = TaxCollect(<<>>, <<>>, SelectSeq(rels, Identified)).hierarchy

IsRoot(name) == name \in root_nodes

RECURSIVE ChildrenInMapOrder(_)
ChildrenInMapOrder(node) ==
    /\ [c \in 1..Len(node.children) |-> node.children[c].name]
          = Get(parent_child_map, node.name).children
    /\ \A c \in 1..Len(node.children) : ChildrenInMapOrder(node.children[c])

\* C9: the dimension variant returns the roots in the order their names were first
\* inserted into the parent-child map, and every node's children in the first-seen
\* order of the edges under that parent, each child once.
C9_OrderPreserved ==
    (Returned /\ variant = "dimension") =>
        /\ Keys(hierarchy) = SelectSeq(Keys(parent_child_map), IsRoot)
        /\ \A n \in 1..Len(hierarchy) : ChildrenInMapOrder(hierarchy[n].v)

-----------------------------------------------------------------------------
(* Properties of the merges *)

\* the hierarchy process_relationships returns for arc-role a in parse_taxonomy
ScopeHierarchy(a) == TaxCollect(<<>>, <<>>, model_xbrl[a]).hierarchy

\* the children the arc-roles 1..a contribute to `parent`, scope after scope
RECURSIVE ContributedChildren(_, _)
ContributedChildren(parent, a) ==
    IF a = 0 THEN <<>>
    ELSE ContributedChildren(parent, a - 1)
         \o (IF Has(ScopeHierarchy(a), parent)
             THEN Get(ScopeHierarchy(a), parent).children ELSE <<>>)

ChildNames(entry) == [c \in 1..Len(entry.children) |-> entry.children[c].name]

\* C6: in parse_taxonomy the unified entry of a parent holds the children of the first
\* scope that has the parent followed by those of every later scope, nothing removed
\* (a child that two scopes contribute is there twice); a parent seen for the first
\* time is inserted with its children as they are.
C6_MergeAccumulates ==
    /\ KeySet(unified_dimensions) = UNION {KeySet(ScopeHierarchy(a)) : a \in 1..(arc - 1)}
    /\ \A n \in 1..Len(unified_dimensions) :
          unified_dimensions[n].v.children
             = ContributedChildren(unified_dimensions[n].k, arc - 1)

\* two scopes each brought [B] under A: the unified A holds B, B
C6_Witness ==
    /\ pc = "done"
    /\ model_xbrl[1] = <<Edge("A", "B")>> /\ model_xbrl[2] = <<Edge("A", "B")>>
    /\ Has(unified_dimensions, StrQName(QName("A")))
    /\ Len(Get(unified_dimensions, StrQName(QName("A"))).children) >= 2
    /\ SubSeq(ChildNames(Get(unified_dimensions, StrQName(QName("A")))), 1, 2)
          = <<StrQName(QName("B")), StrQName(QName("B"))>>

\* C7: in parse_dimensions a root name that is already in the unified mapping keeps
\* its children when a later scope brings the same root; no merged child is lost, so
\* at the end every relationship of every scope is found under its tagged parent.
C7_ChildrenKept ==
    pc = "done" =>
        \A a \in DOMAIN model_xbrl : \A e \in Elrs :
            \A n \in 1..Len(model_xbrl[a][e]) :
                LET r == model_xbrl[a][e][n]
                    parent_name == RolePrefix(e) \o <<r.fromModelObject.qname.localName>>
                    child_name == <<r.toModelObject.qname.localName>>
                IN  /\ Has(dimensions, parent_name)
                    /\ InSeq(ChildNames(Get(dimensions, parent_name)), child_name)

-----------------------------------------------------------------------------
(* Properties of parse_formula *)

\* the number of objects of the chain under walk
ChainLength ==
    1 + Len(model_xbrl[CHOOSE a \in FormulaArcroles :
                          \A b \in FormulaArcroles : Len(model_xbrl[b]) <= Len(model_xbrl[a])])

\* the dicts that hold an entry for the k-th object of the chain
EntryDicts(k) == {d \in 1..Len(heap) : Has(heap[d], Label(k))}

\* the k-th object's entry hangs where the walk puts it: the root's in the root's
\* mapping, any other in a dict among the children of its predecessor's entry
EntryLinked(k) ==
    IF k = 1
    THEN /\ Has(formula_hierarchy, Label(1))
         /\ Get(formula_hierarchy, Label(1)) \in EntryDicts(1)
    ELSE \E d \in EntryDicts(k - 1) :
            \E c \in 1..Len(Get(heap[d], Label(k - 1)).children) :
                Get(heap[d], Label(k - 1)).children[c] \in EntryDicts(k)

\* C5: on a chain longer than max_depth the walk ends without error, truncated at depth
\* max_depth: no entry is ever made for an object deeper than max_depth (the root is at
\* depth 0), no more than max_depth + 1 calls are ever nested, and when parse_formula
\* returns every object of the chain at depth <= max_depth has its entry, the deepest
\* of them holding one empty mapping for the child that was cut off.
C5_DepthBound ==
    /\ \A d \in 1..Len(heap) : \A n \in 1..Len(heap[d]) : heap[d][n].k[2] - 1 <= max_depth
    /\ Len(stack) <= max_depth + 1
    /\ pc = "done" =>
          /\ \A k \in 1..ChainLength : k - 1 <= max_depth => EntryLinked(k)
          /\ ChainLength > max_depth + 1 =>
                \A d \in EntryDicts(max_depth + 1) :
                    LET e == Get(heap[d], Label(max_depth + 1))
                    IN  Len(e.children) = 1 /\ heap[e.children[1]] = <<>>

C5_Witness ==
    /\ pc = "done"
    /\ ChainLength > max_depth + 1
    /\ EntryDicts(max_depth + 1) # {}
    /\ EntryDicts(max_depth + 2) = {}

\* the pass of arc-role a over the r-th root object is over
PassDone(a, r) ==
    \/ a < arc /\ model_xbrl[a] # <<>>
    \/ a = arc /\ pc \in {"roots", "walk"} /\ r < root_ix

\* what the pass of arc-role a appends under the root object o: one mapping for each
\* relationship from o with a target, keyed by the target's name, and empty when the
\* target is o itself (the cycle guard)
ProducedKeys(o, a) ==
    LET withTarget == SelectSeq(FromModelObject(model_xbrl[a], o),
                                LAMBDA r : r.toModelObject.present)
    IN  [n \in 1..Len(withTarget) |->
            IF withTarget[n].toModelObject = o THEN <<>>
            ELSE <<ObjName(withTarget[n].toModelObject)>>]

\* root objects that write the same entry: same label, same name
SameEntry(o, q) == o.xlinkLabel = q.xlinkLabel /\ ObjName(o) = ObjName(q)

\* the children of o's entry after the first j passes, the passes counted arc-role by
\* arc-role and, within an arc-role, root by root
RECURSIVE Accumulated(_, _)
Accumulated(o, j) ==
    IF j = 0 THEN <<>>
    ELSE LET a == ((j - 1) \div Len(root_objects)) + 1
             r == ((j - 1) % Len(root_objects)) + 1
         IN  Accumulated(o, j - 1)
             \o (IF PassDone(a, r) /\ SameEntry(o, root_objects[r])
                 THEN ProducedKeys(root_objects[r], a) ELSE <<>>)

\* C10: the passes run in arc-role order and write into the same per-root mapping; a
\* root's entry is made by the first pass that runs and never reset, so between the
\* calls on the roots (and at the end) its children are the children of arc-role 1,
\* then those of arc-role 2, then those of arc-role 3, as far as the passes have come.
C10_FormulaAccumulates ==
    pc \in {"arcrole", "roots", "done"} =>
        \A r \in 1..Len(root_objects) :
            LET o      == root_objects[r]
                first  == CHOOSE q \in 1..Len(root_objects) :
                             /\ SameEntry(o, root_objects[q])
                             /\ \A p \in 1..(q - 1) : ~SameEntry(o, root_objects[p])
                passed == \E a \in FormulaArcroles : PassDone(a, first)
            IN  IF ~passed
                THEN ~Has(formula_hierarchy, o.xlinkLabel)
                     \/ ~Has(heap[Get(formula_hierarchy, o.xlinkLabel)], ObjName(o))
                ELSE /\ Has(formula_hierarchy, o.xlinkLabel)
                     /\ Has(heap[Get(formula_hierarchy, o.xlinkLabel)], ObjName(o))
                     /\ LET e == Get(heap[Get(formula_hierarchy, o.xlinkLabel)], ObjName(o))
                        IN  /\ e.type = root_objects[first].localName
                            /\ e.label = o.xlinkLabel
                            /\ [c \in 1..Len(e.children) |-> Keys(heap[e.children[c]])]
                                  = Accumulated(o, Cardinality(FormulaArcroles)
                                                      * Len(root_objects))

\* two arc-roles each gave the root O1 a child: both are under its entry, in order
C10_Witness ==
    /\ pc = "done"
    /\ root_objects = <<O1>>
    /\ ProducedKeys(O1, 1) # <<>> /\ ProducedKeys(O1, 3) # <<>>
    /\ Len(Get(heap[Get(formula_hierarchy, Label(1))], Label(1)).children)
          = Len(ProducedKeys(O1, 1)) + Len(ProducedKeys(O1, 2)) + Len(ProducedKeys(O1, 3))

\* the relationships the loop of the call at level L of the stack is through with:
\* all of them for the innermost call, and for a caller those before the one whose
\* target is under visit
Processed(L) ==
    LET all == Outgoing(model_xbrl[arc], stack[L].obj)
    IN  SubSeq(all, 1, Len(all) - Len(stack[L].out))

\* the targets the call at level L has visited, in relationship order
VisitedTargets(L) ==
    LET withTarget == SelectSeq(Processed(L), LAMBDA r : r.toModelObject.present)
    IN  [n \in 1..Len(withTarget) |-> withTarget[n].toModelObject]

\* a call on t made by the call at level L returns at a guard: t is on the descent
\* path, which is the objects of the calls up to level L, or t is too deep
CutOff(t, L) ==
    \/ t \in {stack[j].obj : j \in 1..L}
    \/ DepthExceeded(stack[L].depth + 1, max_depth)

\* every place where the heap names a nested mapping: dict, entry, child position
ChildRefs ==
    UNION {UNION {{<<d, n, c>> : c \in 1..Len(heap[d][n].v.children)} :
                     n \in 1..Len(heap[d])} :
              d \in 1..Len(heap)}

\* the nested mapping a place names
ChildAt(r) == heap[r[1]][r[2]].v.children[r[3]]

\* the mappings that are nobody's child: the roots' mappings, and those of the calls
\* that have not yet returned to their caller
Unattached ==
    {Get(formula_hierarchy, k) : k \in KeySet(formula_hierarchy)}
        \cup {stack[L].hierarchy : L \in 2..Len(stack)}

\* C11: a visit that passes both guards appends one fresh mapping for every outgoing
\* relationship with a target, in relationship order: the mappings appended so far by a
\* call still running are the last children of its entry (all of them unless the entry
\* is a root's, made by an earlier pass), one for each target visited; each holds the
\* target's name as its only key, or nothing exactly when the guards cut the target
\* off. Fresh: every nested mapping is the child of one entry at one position.
C11_FreshChildPerRelationship ==
    /\ \A L \in 1..Len(stack) :
          LET f    == stack[L]
              ts   == VisitedTargets(L)
          IN  /\ Has(heap[f.hierarchy], ObjName(f.obj))
              /\ LET e    == Get(heap[f.hierarchy], ObjName(f.obj))
                     base == Len(e.children) - Len(ts)
                 IN  /\ base >= 0
                     /\ L > 1 => base = 0
                     /\ \A c \in 1..Len(ts) :
                           Keys(heap[e.children[base + c]])
                              = IF CutOff(ts[c], L) THEN <<>> ELSE <<ObjName(ts[c])>>
    /\ \A d \in 1..Len(heap) : Len(heap[d]) <= 1
    /\ Cardinality({ChildAt(r) : r \in ChildRefs}) = Cardinality(ChildRefs)
    /\ {ChildAt(r) : r \in ChildRefs} = (1..Len(heap)) \ Unattached

\* a call is about to return whose entry holds, in relationship order, the mapping of
\* a child that was entered and the empty mapping of a child the cycle guard cut off
C11_Witness ==
    /\ pc = "walk" /\ Len(stack) = 2
    /\ stack[2].out = <<>>
    /\ VisitedTargets(2) = <<O3, O1>>
    /\ LET e == Get(heap[stack[2].hierarchy], ObjName(stack[2].obj))
       IN  /\ Keys(heap[e.children[1]]) = <<ObjName(O3)>>
           /\ heap[e.children[2]] = <<>>

-----------------------------------------------------------------------------
(* The two recursive traversals, call by call *)

\* the relationships of one input to a traversal
MaxTraversalRels == 2

\* dimension_parser.process_relationships on one scope: short inputs, self-loops and
\* two-cycles among them, and the ring and the diamond
InitBuildTraversal ==
    /\ variant = "dimension"
    /\ elr = Elr1
    /\ rels \in SeqsUpTo(RelPool, MaxTraversalRels) \cup {RingInput, FanIn}
    /\ i = 1
    /\ parent_child_map = <<>>
    /\ root_nodes = {}
    /\ hierarchy = <<>>
    /\ skipped_relationships = <<>>
    /\ build_stack = <<>>
    /\ build_visited = {}
    /\ MergeIdle
    /\ FormulaIdle
    /\ pc = "collect"

\* parse_formula on short inputs, self-loops and two-cycles among them
InitFormulaTraversal ==
    /\ \E l1 \in 0..MaxTraversalRels : \E l2 \in 0..(MaxTraversalRels - l1) :
       \E l3 \in 0..(MaxTraversalRels - l1 - l2) :
          \E s1 \in [1..l1 -> FormulaPool] : \E s2 \in [1..l2 -> FormulaPool] :
          \E s3 \in [1..l3 -> FormulaPool] :
             model_xbrl = <<s1, s2, s3>>
    /\ root_objects \in RootInputs
    /\ root_ix = 0
    /\ formula_hierarchy = <<>>
    /\ heap = <<>>
    /\ stack = <<>>
    /\ formula_visited = {}
    /\ arc = 1
    /\ all_elrs = {}
    /\ dimensions = <<>>
    /\ unified_dimensions = <<>>
    /\ RelIdle
    /\ pc = "arcrole"

InitTraversal == InitBuildTraversal \/ InitFormulaTraversal

NextTraversal ==
    \/ RelCollectDim
    \/ RelResolveRoots
    \/ BuildCallRoot
    \/ BuildVisitChild
    \/ BuildReturnCall
    \/ RelReturnDim
    \/ NextFormula

\* the code is one thread that runs on until it returns or raises
SpecTraversal == InitTraversal /\ [][NextTraversal]_vars /\ WF_vars(NextTraversal)

-----------------------------------------------------------------------------
(* Properties of the two traversals *)

\* the objects of the running calls of process_formula_object
FormulaPath == {stack[j].obj : j \in 1..Len(stack)}

\* the names of the running calls of build_hierarchy
BuildPath == {build_stack[j].node.name : j \in 1..Len(build_stack)}

\* the set `visited` is the current descent path, on which nothing stands twice; it is
\* empty whenever no top-level call is running; and the node a top-level call of
\* build_hierarchy hands back is the one the function computes as a whole
PathDiscipline ==
    /\ formula_visited = FormulaPath
    /\ Cardinality(FormulaPath) = Len(stack)
    /\ pc # "walk" => stack = <<>> /\ formula_visited = {}
    /\ build_visited = BuildPath
    /\ Cardinality(BuildPath) = Len(build_stack)
    /\ pc # "descend" => build_stack = <<>> /\ build_visited = {}
    /\ \A n \in 1..Len(hierarchy) :
          LET r == build_hierarchy(parent_child_map, hierarchy[n].k, {})
          IN  r.some /\ r.node = hierarchy[n].v /\ r.visited = {}

\* the function has returned, or has raised
Ended == pc \in {"done", "raised"}

\* C12: on every finite relationship set, cyclic ones and self-loops included, both
\* traversals come to an end: nothing already on the current descent path is entered
\* again, the set `visited` holds exactly the nodes of the running calls, and it is
\* empty again when the top-level call returns.
C12_TraversalsTerminate == []PathDiscipline /\ <>Ended

\* parse_formula has returned from a walk over the cycle O1 -> O2 -> O1, which the
\* cycle guard cut at the second meeting of O1
C12_Witness ==
    /\ pc = "done"
    /\ root_objects = <<O1>>
    /\ model_xbrl[1] = <<FRel(O1, O2), FRel(O2, O1)>>
    /\ formula_visited = {} /\ stack = <<>>
    /\ \E d \in EntryDicts(2) :
          LET e == Get(heap[d], Label(2))
          IN  Len(e.children) >= 1 /\ heap[e.children[1]] = <<>>

====
